---- MODULE Spec2Model ----
(***************************************************************************)
(* Model of the app-runner server (src/server/index.js): the SQLite-backed *)
(* stats store (launches, ratings, sessions, kv), the startup migration of *)
(* server/state.json, the socket.io session handlers and the build route.  *)
(*                                                                         *)
(* Node runs every handler to completion on one thread and better-sqlite3  *)
(* is synchronous, so each HTTP handler and each socket handler is one     *)
(* atomic action.  The only operation that spans several steps is a build: *)
(* exec() returns at once and its callback runs when the child exits.      *)
(***************************************************************************)
EXTENDS Integers, Sequences, FiniteSets, TLC

(***************************************************************************)
(* Bounds of the model.                                                    *)
(***************************************************************************)
MaxLaunch == 2        \* a launch counter is not incremented beyond this
MaxRatingRows == 2    \* rows of the ratings table
MaxSockets == 2       \* socket.io connections ever accepted
MaxBuilds == 2        \* child processes ever spawned by the build route

(***************************************************************************)
(* Strings that the code inspects are sequences of one-character strings.  *)
(***************************************************************************)
IdA == <<"a">>
IdB == <<"b">>
IdDotDot == <<".", ".">>
IdNested == <<"a", "/", "b">>
IdEscape == <<".", ".", "/", "c">>
IdDotted == <<"a", ".", ".">>

\* ids used with /api/launch/:id and /api/rate/:id
ProjectIds == {IdA, IdB}

\* ids used with /api/build/:id (Express decodes %2F in a route parameter)
BuildIds == {IdA, IdB, IdDotDot, IdNested, IdEscape, IdDotted}

\* String.prototype.includes
Includes(s, t) ==
    \E i \in 1..(Len(s) - Len(t) + 1) : SubSeq(s, i, i + Len(t) - 1) = t

(***************************************************************************)
(* path.join(DATA_DIR, id), relative to DATA_DIR: the id is split at "/"   *)
(* and normalised; a leading ".." component climbs out of DATA_DIR.        *)
(***************************************************************************)
RECURSIVE SplitSlash(_)
SplitSlash(s) ==
    IF \A i \in 1..Len(s) : s[i] # "/"
    THEN <<s>>
    ELSE LET k == CHOOSE i \in 1..Len(s) :
                      s[i] = "/" /\ \A j \in 1..(i - 1) : s[j] # "/"
         IN  <<SubSeq(s, 1, k - 1)>> \o SplitSlash(SubSeq(s, k + 1, Len(s)))

RECURSIVE Normalize(_, _)
Normalize(parts, acc) ==
    IF parts = <<>> THEN acc
    ELSE LET c == Head(parts)
             rest == Tail(parts)
         IN  IF c = <<>> \/ c = <<".">> THEN Normalize(rest, acc)
             ELSE IF c = <<".", ".">>
                  THEN IF acc # <<>> /\ acc[Len(acc)] # <<".", ".">>
                       THEN Normalize(rest, SubSeq(acc, 1, Len(acc) - 1))
                       ELSE Normalize(rest, Append(acc, c))
                  ELSE Normalize(rest, Append(acc, c))

PathJoin(id) == Normalize(SplitSlash(id), <<>>)

(***************************************************************************)
(* JSON values of a request body or of the legacy file, and Number().      *)
(***************************************************************************)
\* a JavaScript number: NaN, or the value v
NaN == [nan |-> TRUE]
Num(n) == [nan |-> FALSE, v |-> n]
JNum(n) == [t |-> "number", v |-> n]
JStr(s) == [t |-> "string", v |-> s]
JBool(b) == [t |-> "boolean", v |-> b]
JNull == [t |-> "null"]
JUndefined == [t |-> "undefined"]

DigitValue(c) ==
    CASE c = "0" -> 0 [] c = "1" -> 1 [] c = "2" -> 2 [] c = "3" -> 3
      [] c = "4" -> 4 [] c = "5" -> 5 [] c = "6" -> 6 [] c = "7" -> 7
      [] c = "8" -> 8 [] c = "9" -> 9 [] OTHER -> -1

RECURSIVE DecimalValue(_)
DecimalValue(s) ==
    IF s = <<>> THEN 0
    ELSE 10 * DecimalValue(SubSeq(s, 1, Len(s) - 1)) + DigitValue(s[Len(s)])

\* Number(x) of JavaScript, on the values the model draws
ToNumber(j) ==
    CASE j.t = "number" -> Num(j.v)
      [] j.t = "null" -> Num(0)
      [] j.t = "undefined" -> NaN
      [] j.t = "boolean" -> IF j.v THEN Num(1) ELSE Num(0)
      [] j.t = "string" ->
            IF \A i \in 1..Len(j.v) : DigitValue(j.v[i]) >= 0
            THEN Num(DecimalValue(j.v))
            ELSE NaN

\* the values a client puts in { rating: ... }; undefined is a body without
\* the field
RatingBodies ==
    { JNum(-1), JNum(0), JNum(1), JNum(2), JNum(3), JNum(4), JNum(5), JNum(6),
      JNull, JUndefined, JStr(<<"x">>), JStr(<<"3">>), JStr(<<>>),
      JBool(TRUE), JBool(FALSE) }

\* the bodies sent while the other operations are interleaved
CoreRatingBodies == { JNum(-1), JNum(4) }

(***************************************************************************)
(* SQL values.                                                             *)
(***************************************************************************)
NULL == "NULL"
\* a JavaScript number as better-sqlite3 binds it: NaN is stored as NULL
SqlNumber(x) == IF x.nan THEN NULL ELSE x.v
CURRENT_TIMESTAMP == "ts"
DefaultVersion == "1.0.1"

VARIABLES
    kv,             \* table kv: "version" row, or NULL when absent
    launches,       \* table launches: project_id -> count, on the rows present
    ratings,        \* table ratings: sequence of rows in AUTOINCREMENT order
    sessions,       \* table sessions: id -> row, on the rows present
    stateJson,      \* server/state.json: NoFile when the file does not exist
    runtimeOnline,  \* let runtimeOnline
    alive,          \* the server process is running
    sockets,        \* io.sockets.sockets: ids of the connected sockets
    nextSocketId,   \* socket ids are fresh: the next id to hand out
    fs,             \* directories below (or beside) DATA_DIR that exist
    files,          \* regular files of the project directories: path -> content
    procs,          \* child processes started by exec() and still running
    nextPid,        \* the next process id
    req,            \* the request or socket event handled by the last step, or
                    \* the request a page has put on the wire
    res,            \* the HTTP response it sent, if any
    emitted,        \* the socket.io messages it sent, in order
    client          \* one dashboard page (App.tsx): its base and its apiFetch call

dbVars == <<kv, launches, ratings, sessions>>
rtVars == <<runtimeOnline, alive, sockets, nextSocketId>>
buildVars == <<fs, files, procs, nextPid>>
ioVars == <<req, res, emitted>>
vars == <<kv, launches, ratings, sessions, stateJson, runtimeOnline, alive,
          sockets, nextSocketId, fs, files, procs, nextPid, req, res, emitted,
          client>>

NoRes == [status |-> 0]

\* no dashboard page is open
NoPage == [phase |-> "closed"]

(***************************************************************************)
(* The prepared statements.                                                *)
(***************************************************************************)
\* SELECT v FROM kv WHERE k = 'version', with the handlers' default
GetVersionKV(k) == IF k = NULL THEN DefaultVersion ELSE k

\* the upsert without its ON CONFLICT increment: the row is replaced by count 1
IncLaunchReplace(l, id) ==
    [p \in (DOMAIN l) \cup {id} |-> IF p = id THEN 1 ELSE l[p]]

\* an INSERT OR REPLACE of the project id alone: count takes its DEFAULT 0
IncLaunchDefault(l, id) ==
    [p \in (DOMAIN l) \cup {id} |-> IF p = id THEN 0 ELSE l[p]]

\* an upsert whose UPDATE has lost its key: every row is incremented
IncLaunchAll(l, id) ==
    [p \in (DOMAIN l) \cup {id} |-> IF p \in DOMAIN l THEN l[p] + 1 ELSE 1]

\* INSERT ... VALUES(?,1) ON CONFLICT(project_id) DO UPDATE SET count = count + 1
IncLaunch(l, id) ==
    [p \in (DOMAIN l) \cup {id} |->
        IF p = id THEN (IF id \in DOMAIN l THEN l[id] + 1 ELSE 1) ELSE l[p]]

\* SELECT count FROM launches WHERE project_id = ?, as the handler reads it:
\* newValRow ? Number(newValRow.count || 0) : 0
GetLaunch(l, id) == IF id \in DOMAIN l THEN l[id] ELSE 0

\* an import that adds the file's count to the stored one
SetLaunchAdd(l, id, n) ==
    [p \in (DOMAIN l) \cup {id} |->
        IF p = id THEN (IF id \in DOMAIN l THEN l[id] ELSE 0) + n ELSE l[p]]

\* INSERT OR REPLACE INTO launches (project_id, count) VALUES (?,?)
SetLaunch(l, id, n) ==
    [p \in (DOMAIN l) \cup {id} |-> IF p = id THEN n ELSE l[p]]

\* SELECT project_id, count FROM launches, folded into the launches object
GetAllLaunches(l) == l

\* INSERT INTO ratings (project_id, rating) VALUES (?,?)
InsertRating(r, id, v) == Append(r, [project_id |-> id, rating |-> v])

\* SELECT COUNT(*) as c FROM ratings WHERE project_id = ?
RatingCount(r, id) == Cardinality({i \in 1..Len(r) : r[i].project_id = id})

RECURSIVE SumRatings(_, _)
SumRatings(r, id) ==
    IF r = <<>> THEN 0
    ELSE (IF Head(r).project_id = id THEN Head(r).rating ELSE 0)
         + SumRatings(Tail(r), id)

RECURSIVE Gcd(_, _)
Gcd(a, b) == IF b = 0 THEN a ELSE Gcd(b, a % b)

\* an integer division in place of AVG
AvgTruncated(sum, count) == [num |-> sum \div count, den |-> 1]

\* AVG(rating): the quotient sum / count, kept as a fraction in lowest terms
Avg(sum, count) ==
    LET g == Gcd(IF sum < 0 THEN -sum ELSE sum, count)
    IN  [num |-> sum \div g, den |-> count \div g]

\* SELECT project_id, COUNT(*) as count, AVG(rating) as average
\*   FROM ratings GROUP BY project_id
GetRatingSummary(r) ==
    [p \in {r[i].project_id : i \in 1..Len(r)} |->
        [average |-> Avg(SumRatings(r, p), RatingCount(r, p)),
         count |-> RatingCount(r, p)]]

\* an INSERT OR REPLACE that also reopens every other row
CreateSessionReopensAll(s, id, meta) ==
    [x \in (DOMAIN s) \cup {id} |->
        IF x = id
        THEN [meta |-> meta, connected_at |-> CURRENT_TIMESTAMP,
              disconnected_at |-> NULL]
        ELSE [s[x] EXCEPT !.disconnected_at = NULL]]

\* INSERT OR REPLACE INTO sessions (id, meta, connected_at, disconnected_at)
\*   VALUES (?, ?, CURRENT_TIMESTAMP, NULL)
CreateSession(s, id, meta) ==
    [x \in (DOMAIN s) \cup {id} |->
        IF x = id
        THEN [meta |-> meta, connected_at |-> CURRENT_TIMESTAMP,
              disconnected_at |-> NULL]
        ELSE s[x]]

\* the UPDATE without its WHERE clause
DisconnectEverySession(s, id) ==
    [x \in DOMAIN s |-> [s[x] EXCEPT !.disconnected_at = CURRENT_TIMESTAMP]]

\* a hard close: DELETE FROM sessions WHERE id = ?
DeleteSession(s, id) == [x \in (DOMAIN s) \ {id} |-> s[x]]

\* UPDATE sessions SET disconnected_at = CURRENT_TIMESTAMP WHERE id = ?
DisconnectSession(s, id) ==
    [x \in DOMAIN s |->
        IF x = id THEN [s[x] EXCEPT !.disconnected_at = CURRENT_TIMESTAMP]
        ELSE s[x]]

\* the COUNT without its WHERE clause
CountEverySession(s) == Cardinality(DOMAIN s)

\* SELECT COUNT(*) as c FROM sessions WHERE disconnected_at IS NULL
CountOnlineSessions(s) ==
    Cardinality({x \in DOMAIN s : s[x].disconnected_at = NULL})

\* { version, online, launches, ratings } as the three places that build it do
StatsObject(k, l, r, online) ==
    [version |-> GetVersionKV(k), online |-> online,
     launches |-> GetAllLaunches(l), ratings |-> GetRatingSummary(r)]

(***************************************************************************)
(* Process start: the state.json migration (the schema is created with     *)
(* IF NOT EXISTS and the tables of state.db are kept as they are).         *)
(***************************************************************************)
\* fs.existsSync(sfile) is false
NoFile == [exists |-> FALSE]

\* a state.json written by the earlier release of the server
LegacyFile ==
    [exists |-> TRUE,
     valid |-> TRUE,
     version |-> "2.0.0",
     launches |-> << <<IdA, JNum(1)>> >>,
     ratings |-> << <<IdA, <<JNum(7)>> >> >>]

\* a state.json that JSON.parse rejects
CorruptFile == [exists |-> TRUE, valid |-> FALSE]

\* if (parsed.version) insertKV.run('version', parsed.version)
MigrateKV(k, f) == IF f.version # "" THEN f.version ELSE k

\* for (const [k,v] of Object.entries(parsed.launches || {}))
\*   insertLaunch.run(k, Number(v || 0))
RECURSIVE MigrateLaunches(_, _)
MigrateLaunches(l, entries) ==
    IF entries = <<>> THEN l
    ELSE MigrateLaunches(SetLaunch(l, Head(entries)[1], SqlNumber(ToNumber(Head(entries)[2]))),
                         Tail(entries))

\* for (const r of arr) insertRating.run(k, Number(r))
RECURSIVE MigrateSamples(_, _, _)
MigrateSamples(r, id, arr) ==
    IF arr = <<>> THEN r
    ELSE MigrateSamples(InsertRating(r, id, SqlNumber(ToNumber(Head(arr)))), id, Tail(arr))

RECURSIVE MigrateRatings(_, _)
MigrateRatings(r, entries) ==
    IF entries = <<>> THEN r
    ELSE MigrateRatings(MigrateSamples(r, Head(entries)[1], Head(entries)[2]),
                        Tail(entries))

\* The tables and the file after the migration block, and whether the block
\* imported the file.  unlinked is whether fs.unlinkSync removed the file; its
\* failure is swallowed.
Migration(k, l, r, f, unlinked) ==
    IF ~f.exists \/ ~f.valid
    THEN [kv |-> k, launches |-> l, ratings |-> r, stateJson |-> f,
          migrated |-> FALSE]
    ELSE [kv |-> MigrateKV(k, f),
          launches |-> MigrateLaunches(l, f.launches),
          ratings |-> MigrateRatings(r, f.ratings),
          stateJson |-> IF unlinked THEN NoFile ELSE f,
          migrated |-> TRUE]

EmptyFn == [x \in {} |-> 0]

\* The directories of the model's file system, as paths relative to DATA_DIR.
\* The parent of DATA_DIR exists whenever DATA_DIR does.
ParentDir == << <<".", ".">> >>
\* path.join(projectPath, 'dist')
DistName == <<"d", "i", "s", "t">>
DistPath(projectPath) == Append(projectPath, DistName)
FsPaths ==
    {PathJoin(id) : id \in BuildIds} \cup {DistPath(PathJoin(id)) : id \in ProjectIds}
FsParent(p) == SubSeq(p, 1, Len(p) - 1)
FsClosed(f) ==
    /\ ParentDir \in f
    /\ \A p \in f : Len(p) > 1 => FsParent(p) \in f

\* The regular files list() reads: metadata.json and package.json of a
\* project directory.  A content is the parsed JSON (absent or falsy fields
\* are the empty string) or text that JSON.parse rejects.
MetadataJson == <<"metadata.json">>
PackageJson == <<"package.json">>
FilePaths ==
    {Append(PathJoin(id), n) : id \in ProjectIds, n \in {MetadataJson, PackageJson}}
Unparsable == [valid |-> FALSE]
Parsed(name, description) ==
    [valid |-> TRUE, name |-> name, description |-> description]
FileContents ==
    {Unparsable, Parsed(<<"A", "p", "p">>, <<"An app">>), Parsed(<<>>, <<>>)}

\* the process has started; migrated is whether the start imported state.json
StartReq(migrated) == [op |-> "start", migrated |-> migrated]

\* A first start on an empty state.db, with or without a state.json
Init ==
    /\ \E f \in {NoFile, LegacyFile, CorruptFile}, unlinked \in BOOLEAN :
         LET m == Migration(NULL, EmptyFn, <<>>, f, unlinked)
         IN  /\ kv = m.kv
             /\ launches = m.launches
             /\ ratings = m.ratings
             /\ stateJson = m.stateJson
             /\ req = StartReq(m.migrated)
    /\ sessions = EmptyFn
    /\ runtimeOnline = 0
    /\ alive = TRUE
    /\ sockets = {}
    /\ nextSocketId = 1
    /\ fs = {ParentDir, PathJoin(IdA)}
    /\ files = EmptyFn
    /\ procs = {}
    /\ nextPid = 1
    /\ res = NoRes
    /\ emitted = <<>>
    /\ client = NoPage

\* The process stops (crash, kill or container restart; no disconnect handler
\* runs) and is started again on the same state.db.
Restart ==
    /\ \E unlinked \in BOOLEAN :
         LET m == Migration(kv, launches, ratings, stateJson, unlinked)
         IN  /\ Len(m.ratings) <= MaxRatingRows
             /\ kv' = m.kv
             /\ launches' = m.launches
             /\ ratings' = m.ratings
             /\ stateJson' = m.stateJson
             /\ req' = StartReq(m.migrated)
    /\ runtimeOnline' = 0
    /\ alive' = TRUE
    /\ sockets' = {}
    /\ res' = NoRes
    /\ emitted' = <<>>
    /\ UNCHANGED <<sessions, nextSocketId, buildVars, client>>

(***************************************************************************)
(* HTTP handlers of the stats store.                                       *)
(***************************************************************************)
\* a socket.io message: io.emit reaches every connected socket
Msg(event, to, payload) == [event |-> event, to |-> to, payload |-> payload]

\* a server on which no 'stats-changed' listener is registered
StatsChangedUnregistered(k, l, r) == <<>>

\* app.on('stats-changed'): the broadcast run inside app.emit
StatsChanged(k, l, r) ==
    << Msg("stats:update", sockets, StatsObject(k, l, r, runtimeOnline)) >>

\* GET /api/stats
GetStats ==
    /\ alive
    /\ req' = [op |-> "stats"]
    /\ res' = [status |-> 200,
               body |-> StatsObject(kv, launches, ratings,
                                    CountOnlineSessions(sessions))]
    /\ emitted' = <<>>
    /\ UNCHANGED <<dbVars, stateJson, client, rtVars, buildVars>>

\* a launch route that emits 'stats-changed' before incLaunch.run
RecordLaunchEmitFirst(id) ==
    /\ alive
    /\ GetLaunch(launches, id) < MaxLaunch
    /\ launches' = IncLaunch(launches, id)
    /\ req' = [op |-> "launch", id |-> id]
    /\ emitted' = StatsChanged(kv, launches, ratings)
    /\ res' = [status |-> 200, launches |-> GetLaunch(launches', id),
               framesSent |-> Len(emitted')]
    /\ UNCHANGED <<kv, ratings, sessions, stateJson, client, rtVars, buildVars>>

\* POST /api/launch/:id.  app.emit runs the 'stats-changed' listener
\* synchronously, so res.json is called after the listener has returned:
\* framesSent is the number of socket.io frames sent by then.
RecordLaunch(id) ==
    /\ alive
    /\ GetLaunch(launches, id) < MaxLaunch
    /\ launches' = IncLaunch(launches, id)
    /\ req' = [op |-> "launch", id |-> id]
    /\ emitted' = StatsChanged(kv, launches', ratings)
    /\ res' = [status |-> 200, launches |-> GetLaunch(launches', id),
               framesSent |-> Len(emitted')]
    /\ UNCHANGED <<kv, ratings, sessions, stateJson, client, rtVars, buildVars>>

\* Number.isNaN(rating) || rating < 0 || rating > 5
InvalidRating(x) == x.nan \/ x.v < 0 \/ x.v > 5

\* POST /api/rate/:id
RecordRating(id, body) ==
    LET rating == ToNumber(body)
    IN  /\ alive
        /\ req' = [op |-> "rate", id |-> id, body |-> body]
        /\ IF InvalidRating(rating)
           THEN /\ res' = [status |-> 400]
                /\ emitted' = <<>>
                /\ UNCHANGED ratings
           ELSE /\ Len(ratings) < MaxRatingRows
                /\ ratings' = InsertRating(ratings, id, SqlNumber(rating))
                /\ emitted' = StatsChanged(kv, launches, ratings')
                /\ res' = [status |-> 200,
                           ratingCount |-> RatingCount(ratings', id),
                           framesSent |-> Len(emitted')]
        /\ UNCHANGED <<kv, launches, sessions, stateJson, client, rtVars, buildVars>>

(***************************************************************************)
(* socket.io handlers.                                                     *)
(***************************************************************************)
\* a connection handler that counts the open rows before createSession.run
ConnectCountFirst ==
    LET id == nextSocketId
    IN  /\ alive
        /\ id <= MaxSockets
        /\ nextSocketId' = id + 1
        /\ sockets' = sockets \cup {id}
        /\ sessions' = CreateSession(sessions, id, NULL)
        /\ runtimeOnline' = CountOnlineSessions(sessions)
        /\ req' = [op |-> "connection", id |-> id]
        /\ res' = NoRes
        /\ emitted' =
              << Msg("session:update", sockets', [online |-> runtimeOnline']),
                 Msg("stats:update", {id},
                     StatsObject(kv, launches, ratings, runtimeOnline')) >>
        /\ UNCHANGED <<kv, launches, ratings, stateJson, client, alive, buildVars>>

\* io.on('connection')
Connect ==
    LET id == nextSocketId
    IN  /\ alive
        /\ id <= MaxSockets
        /\ nextSocketId' = id + 1
        /\ sockets' = sockets \cup {id}
        /\ sessions' = CreateSession(sessions, id, NULL)
        /\ runtimeOnline' = CountOnlineSessions(sessions')
        /\ req' = [op |-> "connection", id |-> id]
        /\ res' = NoRes
        /\ emitted' =
              << Msg("session:update", sockets', [online |-> runtimeOnline']),
                 Msg("stats:update", {id},
                     StatsObject(kv, launches, ratings, runtimeOnline')) >>
        /\ UNCHANGED <<kv, launches, ratings, stateJson, client, alive, buildVars>>

\* JSON.stringify(meta || null) of the two metas the model's clients send
JoinMetas == {"object"}
StringifyMeta(meta) == IF meta = "undefined" THEN "null" ELSE "{}"

\* socket.on('session:join')
SessionJoin(id, meta) ==
    /\ alive
    /\ id \in sockets
    /\ sessions' = CreateSession(sessions, id, StringifyMeta(meta))
    /\ req' = [op |-> "session:join", id |-> id]
    /\ res' = NoRes
    /\ emitted' =
          << Msg("session:joined", sockets,
                 [id |-> id, online |-> Cardinality(sockets)]) >>
    /\ UNCHANGED <<kv, launches, ratings, stateJson, client, rtVars, buildVars>>

\* socket.on('disconnect'): socket.io has removed the socket from
\* io.sockets.sockets before the handler runs
Disconnect(id) ==
    /\ alive
    /\ id \in sockets
    /\ sockets' = sockets \ {id}
    /\ sessions' = DisconnectSession(sessions, id)
    /\ runtimeOnline' = CountOnlineSessions(sessions')
    /\ req' = [op |-> "disconnect", id |-> id]
    /\ res' = NoRes
    /\ emitted' =
          << Msg("session:update", sockets', [online |-> runtimeOnline']) >>
    /\ UNCHANGED <<kv, launches, ratings, stateJson, client, alive, nextSocketId, buildVars>>

NextStats ==
    \/ Restart
    \/ GetStats
    \/ \E id \in ProjectIds : RecordLaunch(id)
    \/ \E id \in ProjectIds, body \in CoreRatingBodies : RecordRating(id, body)
    \/ Connect
    \/ \E id \in sockets, meta \in JoinMetas : SessionJoin(id, meta)
    \/ \E id \in sockets : Disconnect(id)

SpecStats == Init /\ [][NextStats]_vars

\* The rating route alone, on every body of RatingBodies
NextRate ==
    \/ GetStats
    \/ \E id \in ProjectIds, body \in RatingBodies : RecordRating(id, body)

SpecRate == Init /\ [][NextRate]_vars

(***************************************************************************)
(* The build route.                                                        *)
(***************************************************************************)
\* a route that skips the existence check
ExistsSyncSkipped(f, id) == TRUE

\* fs.existsSync(path.join(DATA_DIR, projectId))
ExistsSync(f, id) == PathJoin(id) \in f

\* projectId.includes('..') || projectId.includes('/')
InvalidProjectId(id) == Includes(id, <<".", ".">>) \/ Includes(id, <<"/">>)

\* a build route that runs one build at a time, whatever the project
BuildRequestOneAtATime(id) ==
    /\ alive
    /\ req' = [op |-> "build", id |-> id]
    /\ emitted' = <<>>
    /\ IF ~ExistsSync(fs, id)
       THEN /\ res' = [status |-> 404]
            /\ UNCHANGED <<procs, nextPid>>
       ELSE IF InvalidProjectId(id)
            THEN /\ res' = [status |-> 400]
                 /\ UNCHANGED <<procs, nextPid>>
            ELSE IF procs # {}
                 THEN /\ res' = [status |-> 409]
                      /\ UNCHANGED <<procs, nextPid>>
                 ELSE /\ nextPid <= MaxBuilds
                      /\ procs' = procs \cup {[pid |-> nextPid, id |-> id]}
                      /\ nextPid' = nextPid + 1
                      /\ res' = NoRes
    /\ UNCHANGED <<dbVars, stateJson, client, rtVars, fs, files>>

\* a build route that answers as soon as exec() has started the child
BuildRequestAnswersAtSpawn(id) ==
    /\ alive
    /\ req' = [op |-> "build", id |-> id]
    /\ emitted' = <<>>
    /\ IF ~ExistsSync(fs, id)
       THEN /\ res' = [status |-> 404]
            /\ UNCHANGED <<procs, nextPid>>
       ELSE IF InvalidProjectId(id)
            THEN /\ res' = [status |-> 400]
                 /\ UNCHANGED <<procs, nextPid>>
            ELSE /\ nextPid <= MaxBuilds
                 /\ procs' = procs \cup {[pid |-> nextPid, id |-> id]}
                 /\ nextPid' = nextPid + 1
                 /\ res' = [status |-> 200, success |-> TRUE]
    /\ UNCHANGED <<dbVars, stateJson, client, rtVars, fs, files>>

\* POST /api/build/:id up to the return of exec(): the response is sent by
\* the callback, when the child has exited
BuildRequest(id) ==
    /\ alive
    /\ req' = [op |-> "build", id |-> id]
    /\ emitted' = <<>>
    /\ IF ~ExistsSync(fs, id)
       THEN /\ res' = [status |-> 404]
            /\ UNCHANGED <<procs, nextPid>>
       ELSE IF InvalidProjectId(id)
            THEN /\ res' = [status |-> 400]
                 /\ UNCHANGED <<procs, nextPid>>
            ELSE /\ nextPid <= MaxBuilds
                 /\ procs' = procs \cup {[pid |-> nextPid, id |-> id]}
                 /\ nextPid' = nextPid + 1
                 /\ res' = NoRes
    /\ UNCHANGED <<dbVars, stateJson, client, rtVars, fs, files>>

\* what the child wrote to stderr, and error.message of a failed exec()
Stderrs == {"", "npm ERR!"}
ErrorMessage == "Command failed"

\* details: stderr || error.message
Details(stderr) == IF stderr # "" THEN stderr ELSE ErrorMessage

\* The exec() callback: the child p has exited.  error is whether exec()
\* reports an error (non-zero exit, or the child killed because its output
\* passed maxBuffer); built is whether the project's own build script has
\* left a dist directory by then, which the server neither checks nor undoes.
BuildExit(p, error, built, stderr) ==
    /\ alive
    /\ p \in procs
    /\ procs' = procs \ {p}
    /\ built => PathJoin(p.id) \in fs
    /\ fs' = IF built THEN fs \cup {DistPath(PathJoin(p.id))} ELSE fs
    /\ req' = [op |-> "build:exit", id |-> p.id, pid |-> p.pid, error |-> error]
    /\ res' = IF error
              THEN [status |-> 500, error |-> "Build failed",
                    details |-> Details(stderr)]
              ELSE [status |-> 200, success |-> TRUE]
    /\ emitted' = <<>>
    /\ UNCHANGED <<dbVars, stateJson, client, rtVars, files, nextPid>>

\* a scan that reports every listed directory as built
HasDistOfProject(f, projectPath) == projectPath \in f

\* hasDist: fs.existsSync(distPath)
HasDist(f, projectPath) == DistPath(projectPath) \in f

\* fs.readdirSync(DATA_DIR, { withFileTypes: true }) filtered by isDirectory()
DirEntries(f) == {q \in f : Len(q) = 1 /\ q # ParentDir}

NoDescription == <<"No description">>

\* let meta = { name: entry.name, description: 'No description' }, then
\* metadata.json if it exists, else package.json if it exists; a file that
\* does not parse leaves meta as it is
ProjectMeta(fl, projectPath) ==
    LET default == [name |-> projectPath[1], description |-> NoDescription]
        metaPath == Append(projectPath, MetadataJson)
        pkgPath == Append(projectPath, PackageJson)
        described(m, c) == IF c.description # <<>>
                           THEN [m EXCEPT !.description = c.description]
                           ELSE m
        named(m, c) == IF c.name # <<>> THEN [m EXCEPT !.name = c.name] ELSE m
    IN  IF metaPath \in DOMAIN fl
        THEN IF fl[metaPath].valid
             THEN described(named(default, fl[metaPath]), fl[metaPath])
             ELSE default
        ELSE IF pkgPath \in DOMAIN fl /\ fl[pkgPath].valid
             THEN described(default, fl[pkgPath])
             ELSE default

\* the descriptor of one directory entry
Descriptor(f, fl, projectPath) ==
    [id |-> projectPath[1],
     name |-> ProjectMeta(fl, projectPath).name,
     description |-> ProjectMeta(fl, projectPath).description,
     hasDist |-> HasDist(f, projectPath),
     hasPackageJson |-> Append(projectPath, PackageJson) \in DOMAIN fl,
     path |-> <<"/", "apps", "/">> \o projectPath[1] \o <<"/">>]

\* a scan whose per-project reads are not guarded: one file that does not
\* parse aborts the whole scan
ListProjectsAborts ==
    /\ alive
    /\ req' = [op |-> "projects"]
    /\ res' = IF \E f \in DOMAIN files : ~files[f].valid
              THEN [status |-> 500, error |-> "Failed to scan projects"]
              ELSE [status |-> 200,
                    body |-> {Descriptor(fs, files, q) : q \in DirEntries(fs)}]
    /\ emitted' = <<>>
    /\ UNCHANGED <<dbVars, stateJson, client, rtVars, buildVars>>

\* GET /api/projects
ListProjects ==
    /\ alive
    /\ req' = [op |-> "projects"]
    /\ res' = [status |-> 200,
               body |-> {Descriptor(fs, files, q) : q \in DirEntries(fs)}]
    /\ emitted' = <<>>
    /\ UNCHANGED <<dbVars, stateJson, client, rtVars, buildVars>>

\* The operator of the host creates or removes a directory.
MkDir(p) ==
    /\ p \notin fs
    /\ FsClosed(fs \cup {p})
    /\ fs' = fs \cup {p}
    /\ req' = [op |-> "mkdir"]
    /\ res' = NoRes
    /\ emitted' = <<>>
    /\ UNCHANGED <<dbVars, stateJson, client, rtVars, files, procs, nextPid>>

\* rmdir: the directory holds no directory and no file
RmDir(p) ==
    /\ p \in fs
    /\ FsClosed(fs \ {p})
    /\ \A f \in DOMAIN files : FsParent(f) # p
    /\ fs' = fs \ {p}
    /\ req' = [op |-> "rmdir"]
    /\ res' = NoRes
    /\ emitted' = <<>>
    /\ UNCHANGED <<dbVars, stateJson, client, rtVars, files, procs, nextPid>>

\* The operator writes or removes metadata.json or package.json of a project.
PutFile(f, content) ==
    /\ FsParent(f) \in fs
    /\ (f \in DOMAIN files) => files[f] # content
    /\ files' = [g \in (DOMAIN files) \cup {f} |->
                    IF g = f THEN content ELSE files[g]]
    /\ req' = [op |-> "write"]
    /\ res' = NoRes
    /\ emitted' = <<>>
    /\ UNCHANGED <<dbVars, stateJson, client, rtVars, fs, procs, nextPid>>

RemoveFile(f) ==
    /\ f \in DOMAIN files
    /\ files' = [g \in (DOMAIN files) \ {f} |-> files[g]]
    /\ req' = [op |-> "unlink"]
    /\ res' = NoRes
    /\ emitted' = <<>>
    /\ UNCHANGED <<dbVars, stateJson, client, rtVars, fs, procs, nextPid>>

NextBuild ==
    \/ \E id \in BuildIds : BuildRequest(id)
    \/ \E p \in procs, error \in BOOLEAN, built \in BOOLEAN, stderr \in Stderrs :
          BuildExit(p, error, built, stderr)
    \/ ListProjects
    \/ \E p \in FsPaths : MkDir(p)
    \/ \E p \in FsPaths : RmDir(p)

SpecBuild == Init /\ [][NextBuild]_vars

\* The registry scan alone, on every content of the files it reads
NextList ==
    \/ ListProjects
    \/ \E p \in FsPaths : MkDir(p)
    \/ \E p \in FsPaths : RmDir(p)
    \/ \E f \in FilePaths, content \in FileContents : PutFile(f, content)
    \/ \E f \in FilePaths : RemoveFile(f)

SpecList == Init /\ [][NextList]_vars

(***************************************************************************)
(* Store failures: a statement of better-sqlite3 throws.                   *)
(***************************************************************************)
\* the store calls of the routes and of the realtime handlers
RouteSites ==
    {"stats.read", "sessions.read", "launch.inc", "launch.get",
     "rate.insert", "rate.count"}
HandlerSites ==
    {"changed.read", "connect.create", "connect.count", "connect.read",
     "join.create", "disconnect.update", "disconnect.count"}

\* a server whose disconnect handler runs disconnectSession outside a try
CaughtButDisconnect(site) == site # "disconnect.update"

\* the store call is inside a try block of its handler
Caught(site) == site \in RouteSites \cup HandlerSites

\* an exception that leaves a route is answered by the default error handler
\* of express: status 500 with an HTML page
ExpressDefault == [status |-> 500, html |-> TRUE]

\* the answer of a route whose store call at site threw
RouteError(site, error) ==
    IF Caught(site) THEN [status |-> 500, error |-> error] ELSE ExpressDefault

\* r.meta ? JSON.parse(r.meta) : null
ParseMeta(meta) == IF meta = NULL \/ meta = "null" THEN "null" ELSE "object"

\* GET /api/sessions (every timestamp of the model is the same instant, so
\* the rows are returned as a set)
GetSessions ==
    /\ alive
    /\ req' = [op |-> "sessions"]
    /\ res' = [status |-> 200,
               body |-> {[id |-> x,
                          meta |-> ParseMeta(sessions[x].meta),
                          connected_at |-> sessions[x].connected_at,
                          disconnected_at |-> sessions[x].disconnected_at] :
                         x \in DOMAIN sessions}]
    /\ emitted' = <<>>
    /\ UNCHANGED <<dbVars, stateJson, client, rtVars, buildVars>>

\* GET /api/stats, one of its reads throws
GetStatsFault ==
    /\ alive
    /\ req' = [op |-> "stats", fault |-> "stats.read"]
    /\ res' = RouteError("stats.read", "Failed to build stats")
    /\ emitted' = <<>>
    /\ UNCHANGED <<dbVars, stateJson, client, rtVars, buildVars>>

\* GET /api/sessions, the SELECT throws
GetSessionsFault ==
    /\ alive
    /\ req' = [op |-> "sessions", fault |-> "sessions.read"]
    /\ res' = RouteError("sessions.read", "Failed to read sessions")
    /\ emitted' = <<>>
    /\ UNCHANGED <<dbVars, stateJson, client, rtVars, buildVars>>

\* a launch route whose catch also receives what the listener throws
RecordLaunchFaultPropagates(id, site) ==
    /\ alive
    /\ site = "launch.inc" \/ GetLaunch(launches, id) < MaxLaunch
    /\ launches' = IF site = "launch.inc" THEN launches
                   ELSE IncLaunch(launches, id)
    /\ req' = [op |-> "launch", id |-> id, fault |-> site]
    /\ res' = [status |-> 500, error |-> "Failed to record launch"]
    /\ emitted' = <<>>
    /\ UNCHANGED <<kv, ratings, sessions, stateJson, client, rtVars, buildVars>>

\* POST /api/launch/:id: incLaunch throws, or getLaunch throws after the
\* increment, or a read of the 'stats-changed' listener throws (swallowed by
\* the listener, and again by the try around app.emit)
RecordLaunchFault(id, site) ==
    /\ alive
    /\ site = "launch.inc" \/ GetLaunch(launches, id) < MaxLaunch
    /\ launches' = IF site = "launch.inc" THEN launches
                   ELSE IncLaunch(launches, id)
    /\ req' = [op |-> "launch", id |-> id, fault |-> site]
    /\ res' = IF site = "changed.read"
              THEN [status |-> 200, launches |-> GetLaunch(launches', id),
                    framesSent |-> 0]
              ELSE RouteError(site, "Failed to record launch")
    /\ emitted' = <<>>
    /\ UNCHANGED <<kv, ratings, sessions, stateJson, client, rtVars, buildVars>>

\* POST /api/rate/:id with a rating the check accepts: insertRating throws, or
\* the count throws after the insert, or a read of the listener throws
RecordRatingFault(id, body, site) ==
    /\ alive
    /\ ~InvalidRating(ToNumber(body))
    /\ site = "rate.insert" \/ Len(ratings) < MaxRatingRows
    /\ ratings' = IF site = "rate.insert" THEN ratings
                  ELSE InsertRating(ratings, id, SqlNumber(ToNumber(body)))
    /\ req' = [op |-> "rate", id |-> id, body |-> body, fault |-> site]
    /\ res' = IF site = "changed.read"
              THEN [status |-> 200, ratingCount |-> RatingCount(ratings', id),
                    framesSent |-> 0]
              ELSE RouteError(site, "Failed to rate")
    /\ emitted' = <<>>
    /\ UNCHANGED <<kv, launches, sessions, stateJson, client, rtVars, buildVars>>

\* io.on('connection'), one of its three try blocks catches a store failure:
\* createSession (no row is written), countOnlineSessions (the socket count is
\* used instead) or a read of the snapshot (no stats:update is sent).  An
\* exception that leaves a socket.io handler is uncaught and ends the process.
ConnectFault(site) ==
    LET id == nextSocketId
        rows == IF site = "connect.create" THEN sessions
                ELSE CreateSession(sessions, id, NULL)
        online == IF site = "connect.count" THEN Cardinality(sockets \cup {id})
                  ELSE CountOnlineSessions(rows)
    IN  /\ alive
        /\ id <= MaxSockets
        /\ nextSocketId' = id + 1
        /\ sessions' = rows
        /\ req' = [op |-> "connection", id |-> id, fault |-> site]
        /\ res' = NoRes
        /\ IF Caught(site)
           THEN /\ sockets' = sockets \cup {id}
                /\ runtimeOnline' = online
                /\ emitted' =
                      << Msg("session:update", sockets', [online |-> online]) >>
                      \o (IF site = "connect.read" THEN <<>>
                          ELSE << Msg("stats:update", {id},
                                      StatsObject(kv, launches, ratings, online)) >>)
                /\ UNCHANGED alive
           ELSE /\ alive' = FALSE
                /\ sockets' = {}
                /\ emitted' = <<>>
                /\ UNCHANGED runtimeOnline
        /\ UNCHANGED <<kv, launches, ratings, stateJson, client, buildVars>>

\* socket.on('session:join'), createSession throws: session:joined is still sent
SessionJoinFault(id, meta) ==
    /\ alive
    /\ id \in sockets
    /\ req' = [op |-> "session:join", id |-> id, fault |-> "join.create"]
    /\ res' = NoRes
    /\ IF Caught("join.create")
       THEN /\ emitted' =
                  << Msg("session:joined", sockets,
                         [id |-> id, online |-> Cardinality(sockets)]) >>
            /\ UNCHANGED <<alive, sockets>>
       ELSE /\ alive' = FALSE
            /\ sockets' = {}
            /\ emitted' = <<>>
    /\ UNCHANGED <<dbVars, stateJson, client, runtimeOnline, nextSocketId, buildVars>>

\* socket.on('disconnect'), disconnectSession throws (the row stays open) or
\* countOnlineSessions throws (the socket count is used instead)
DisconnectFault(id, site) ==
    LET rows == IF site = "disconnect.update" THEN sessions
                ELSE DisconnectSession(sessions, id)
        online == IF site = "disconnect.count" THEN Cardinality(sockets \ {id})
                  ELSE CountOnlineSessions(rows)
    IN  /\ alive
        /\ id \in sockets
        /\ sessions' = rows
        /\ req' = [op |-> "disconnect", id |-> id, fault |-> site]
        /\ res' = NoRes
        /\ IF Caught(site)
           THEN /\ sockets' = sockets \ {id}
                /\ runtimeOnline' = online
                /\ emitted' =
                      << Msg("session:update", sockets', [online |-> online]) >>
                /\ UNCHANGED alive
           ELSE /\ alive' = FALSE
                /\ sockets' = {}
                /\ emitted' = <<>>
                /\ UNCHANGED runtimeOnline
        /\ UNCHANGED <<kv, launches, ratings, stateJson, client, nextSocketId, buildVars>>

\* the project and the rating body of the requests sent to the failing store
FaultIds == {IdA}
FaultBodies == {JNum(4)}

\* The stats routes and the realtime handlers on a store that may fail
NextFault ==
    \/ GetStats
    \/ \E id \in FaultIds : RecordLaunch(id)
    \/ \E id \in FaultIds, body \in FaultBodies : RecordRating(id, body)
    \/ Connect
    \/ \E id \in sockets, meta \in JoinMetas : SessionJoin(id, meta)
    \/ \E id \in sockets : Disconnect(id)
    \/ GetSessions
    \/ GetStatsFault
    \/ GetSessionsFault
    \/ \E id \in FaultIds, site \in {"launch.inc", "launch.get", "changed.read"} :
          RecordLaunchFault(id, site)
    \/ \E id \in FaultIds, body \in FaultBodies,
          site \in {"rate.insert", "rate.count", "changed.read"} :
          RecordRatingFault(id, body, site)
    \/ \E site \in {"connect.create", "connect.count", "connect.read"} :
          ConnectFault(site)
    \/ \E id \in sockets, meta \in JoinMetas : SessionJoinFault(id, meta)
    \/ \E id \in sockets, site \in {"disconnect.update", "disconnect.count"} :
          DisconnectFault(id, site)

SpecFault == Init /\ [][NextFault]_vars

\* The write operations of the stats store and of the session table beside
\* the build route
NextFrame ==
    \/ \E id \in ProjectIds : RecordLaunch(id)
    \/ \E id \in ProjectIds, body \in CoreRatingBodies : RecordRating(id, body)
    \/ Connect
    \/ \E id \in sockets : Disconnect(id)
    \/ \E id \in BuildIds : BuildRequest(id)

SpecFrame == Init /\ [][NextFrame]_vars

(***************************************************************************)
(* The dashboard page (src/App.tsx): apiFetch and the three handlers that  *)
(* POST through it.  A URL path is a sequence of segments, a segment a     *)
(* sequence of characters.                                                 *)
(***************************************************************************)
SegApi == <<"a", "p", "i">>
SegGames == <<"g", "a", "m", "e", "s">>
SegLaunch == <<"l", "a", "u", "n", "c", "h">>
SegRate == <<"r", "a", "t", "e">>
SegBuild == <<"b", "u", "i", "l", "d">>

\* the route name of a path segment
RouteOp(seg) ==
    IF seg = SegLaunch THEN "launch"
    ELSE IF seg = SegRate THEN "rate"
    ELSE IF seg = SegBuild THEN "build"
    ELSE "none"

\* document.baseURI of the page: served at the root, or under the mount
\* prefix the server writes into <base href>
Bases == { <<>>, <<SegGames>> }

\* the endpoint strings of the handlers: `api/build/${id}` is relative,
\* `/api/launch/${id}` and `/api/rate/${id}` start with a slash
BuildEndpoint(id) == [abs |-> FALSE, segs |-> <<SegApi, SegBuild, id>>]
LaunchEndpoint(id) == [abs |-> TRUE, segs |-> <<SegApi, SegLaunch, id>>]
RateEndpoint(id) == [abs |-> TRUE, segs |-> <<SegApi, SegRate, id>>]

\* const ep = endpoint.replace(/^[\/]+/, '')
Ep(endpoint) == endpoint.segs

\* candidates: new URL(ep, document.baseURI), new URL('/' + ep, origin)
Candidates(base, endpoint) == << base \o Ep(endpoint), Ep(endpoint) >>

\* fetch(endpoint, opts): the browser resolves the endpoint as written
Fallback(base, endpoint) ==
    IF endpoint.abs THEN endpoint.segs ELSE base \o endpoint.segs

\* the URLs apiFetch may request, in order
Urls(base, endpoint) == Candidates(base, endpoint) \o <<Fallback(base, endpoint)>>

\* Accept 2xx/3xx as success
Accepted(status) == status >= 200 /\ status < 400

\* fetch(url, opts) puts the request on the wire
Wire(url, body) == [op |-> "fetch", method |-> "POST", path |-> url, body |-> body]

\* the middleware before the API routes: idx = req.path.indexOf('/api/');
\* if (idx > 0) req.url = req.url.substring(idx)
ApiIndex(path) ==
    IF \E i \in 1..(Len(path) - 1) : path[i] = SegApi
    THEN CHOOSE i \in 1..(Len(path) - 1) :
            /\ path[i] = SegApi
            /\ \A j \in 1..(i - 1) : path[j] # SegApi
    ELSE 0
RewriteUrl(path) ==
    IF ApiIndex(path) > 1 THEN SubSeq(path, ApiIndex(path), Len(path)) ELSE path

\* app.post('/api/launch/:id'), '/api/rate/:id', '/api/build/:id'
Route(path) ==
    LET url == RewriteUrl(path)
    IN  IF Len(url) = 3 /\ url[1] = SegApi
        THEN [op |-> RouteOp(url[2]), id |-> url[3]]
        ELSE [op |-> "none"]

\* the deployment passes the request to the server: always when the server
\* is the origin, under the mount prefix when it is behind a proxy, and at
\* the origin's root only if the proxy forwards that too
Forwarded(path) ==
    \/ client.rootApi
    \/ /\ client.base # <<>>
       /\ Len(path) >= Len(client.base)
       /\ SubSeq(path, 1, Len(client.base)) = client.base

\* the request on the wire reaches the route op of the server
Routed(op) ==
    /\ alive
    /\ client.phase = "fetch"
    /\ req.op = "fetch"
    /\ Forwarded(req.path)
    /\ Route(req.path).op = op

\* The browser opens the dashboard: GET / answers index.html, with
\* <base href> set to the mount prefix when there is one.
PageLoad(base, rootApi) ==
    /\ alive
    /\ client = NoPage
    /\ base = <<>> => rootApi
    /\ client' = [phase |-> "idle", base |-> base, rootApi |-> rootApi]
    /\ req' = [op |-> "index", prefix |-> base]
    /\ res' = [status |-> 200, base |-> base]
    /\ emitted' = <<>>
    /\ UNCHANGED <<dbVars, stateJson, rtVars, buildVars>>

\* apiFetch(endpoint, opts) up to its first fetch
ApiFetch(op, id, endpoint, body) ==
    /\ client.phase \in {"idle", "done"}
    /\ client' = [phase |-> "fetch", base |-> client.base,
                  rootApi |-> client.rootApi, op |-> op, id |-> id,
                  endpoint |-> endpoint, body |-> body, k |-> 1]
    /\ req' = Wire(Urls(client.base, endpoint)[1], body)
    /\ res' = NoRes
    /\ emitted' = <<>>
    /\ UNCHANGED <<dbVars, stateJson, rtVars, buildVars>>

HandleBuild(id) == ApiFetch("build", id, BuildEndpoint(id), NULL)
HandleLaunch(id) == ApiFetch("launch", id, LaunchEndpoint(id), NULL)
HandleRating(id, value) == ApiFetch("rate", id, RateEndpoint(id), JNum(value))

\* A fetch of apiFetch resolves with the response res: an accepted status
\* is returned, any other makes the loop go on to the next candidate and
\* after the last one to the fallback, whose response is returned as it is.
ApiFetchNext ==
    /\ client.phase = "fetch"
    /\ req.op # "fetch"
    /\ res.status # 0
    /\ IF Accepted(res.status) \/ client.k = Len(Urls(client.base, client.endpoint))
       THEN /\ client' = [client EXCEPT !.phase = "done"]
            /\ UNCHANGED <<req, res, emitted>>
       ELSE /\ client' = [client EXCEPT !.k = client.k + 1]
            /\ req' = Wire(Urls(client.base, client.endpoint)[client.k + 1],
                           client.body)
            /\ res' = NoRes
            /\ emitted' = <<>>
    /\ UNCHANGED <<dbVars, stateJson, rtVars, buildVars>>

\* the proxy in front of the server has no upstream for the path
ProxyReject ==
    /\ client.phase = "fetch"
    /\ req.op = "fetch"
    /\ ~Forwarded(req.path)
    /\ req' = [op |-> "proxy", path |-> req.path]
    /\ res' = [status |-> 404]
    /\ emitted' = <<>>
    /\ UNCHANGED <<dbVars, stateJson, rtVars, buildVars, client>>

\* the rating stars send 1..5; one of them stands for all
StarValues == {4}

\* the server handling the request that is on the wire
PostLaunch == Routed("launch") /\ RecordLaunch(Route(req.path).id)
PostLaunchFault ==
    /\ Routed("launch")
    /\ \E site \in {"launch.inc", "launch.get"} :
          RecordLaunchFault(Route(req.path).id, site)
PostRate == Routed("rate") /\ RecordRating(Route(req.path).id, req.body)
PostRateFault ==
    /\ Routed("rate")
    /\ \E site \in {"rate.insert", "rate.count"} :
          RecordRatingFault(Route(req.path).id, req.body, site)
PostBuild == Routed("build") /\ BuildRequest(Route(req.path).id)

NextClient ==
    \/ \E base \in Bases, rootApi \in BOOLEAN : PageLoad(base, rootApi)
    \/ \E id \in ProjectIds : HandleBuild(id)
    \/ \E id \in ProjectIds : HandleLaunch(id)
    \/ \E id \in ProjectIds, value \in StarValues : HandleRating(id, value)
    \/ ApiFetchNext
    \/ ProxyReject
    \/ PostLaunch
    \/ PostLaunchFault
    \/ PostRate
    \/ PostRateFault
    \/ PostBuild
    \/ \E p \in procs, error \in BOOLEAN, built \in BOOLEAN, stderr \in Stderrs :
          BuildExit(p, error, built, stderr)

SpecClient == Init /\ [][NextClient]_vars

Next == NextStats \/ NextBuild \/ NextList \/ NextFault \/ NextFrame \/ NextClient

Spec == Init /\ [][Next]_vars

(***************************************************************************)
(* Properties.                                                             *)
(***************************************************************************)
\* the Session rows whose disconnected_at is null
OpenSessions == {x \in DOMAIN sessions : sessions[x].disconnected_at = NULL}

\* the snapshots sent by the last step: the body of GET /api/stats and the
\* stats of every stats:update
SnapshotsSent ==
    (IF req.op = "stats" /\ res.status = 200 THEN {res.body} ELSE {})
    \cup {emitted[i].payload : i \in {j \in DOMAIN emitted :
                                         emitted[j].event = "stats:update"}}

\* an id with a path separator or a parent-directory token
HasPathToken(id) == Includes(id, <<".", ".">>) \/ Includes(id, <<"/">>)

\* C1: at no time do two build processes run for the same project id (a
\* second build(X) is answered 409 and starts no process).
C1_SingleFlight == \A p \in procs, q \in procs : p.id = q.id => p = q

\* C2: no launch increment is lost.  A successful recordLaunch(X) raises
\* launches[X] by exactly one (creating the row at 1) and returns the new value;
\* no rating call, launch of another id, stats read or session event changes
\* launches[X].  (A process start is not one of these operations.)
C2_NoLostLaunch ==
    [][\A x \in ProjectIds :
         LET before == IF x \in DOMAIN launches THEN launches[x] ELSE 0
             after == IF x \in DOMAIN launches' THEN launches'[x] ELSE 0
         IN  IF req'.op = "launch" /\ req'.id = x
             THEN /\ x \in DOMAIN launches'
                  /\ after = before + 1
                  /\ res'.status = 200
                  /\ res'.launches = after
             ELSE req'.op # "start" =>
                     /\ after = before
                     /\ (x \in DOMAIN launches') = (x \in DOMAIN launches)
      ]_vars

C2_Witness ==
    /\ req.op = "launch" /\ req.id = IdB /\ res.status = 200 /\ res.launches = 2
    /\ IdA \in DOMAIN launches
    /\ ratings # <<>>
    /\ \E x \in DOMAIN sessions : sessions[x].disconnected_at # NULL

\* C3: a rating that is not a number in [0,5] is answered 400 and leaves the
\* stored samples unchanged; a number in [0,5] appends exactly one sample and
\* the returned ratingCount is the new count of the project.
C3_RatingValidation ==
    [][req'.op = "rate" =>
         IF req'.body.t = "number" /\ req'.body.v >= 0 /\ req'.body.v <= 5
         THEN /\ res'.status = 200
              /\ ratings' = Append(ratings, [project_id |-> req'.id,
                                             rating |-> req'.body.v])
              /\ res'.ratingCount =
                    Cardinality({i \in 1..Len(ratings') :
                                     ratings'[i].project_id = req'.id})
         ELSE /\ res'.status = 400
              /\ ratings' = ratings
      ]_vars

\* C4: in every snapshot, each project with a stored sample has count = the
\* number of its samples and average * count = the sum of their values.
C4_AverageIsMean ==
    \A snap \in SnapshotsSent :
        \A p \in {ratings[i].project_id : i \in 1..Len(ratings)} :
            LET rows == {i \in 1..Len(ratings) : ratings[i].project_id = p}
            IN  /\ p \in DOMAIN snap.ratings
                /\ snap.ratings[p].count = Cardinality(rows)
                /\ snap.ratings[p].average.num * snap.ratings[p].count
                      = SumRatings(ratings, p) * snap.ratings[p].average.den

C4_Witness ==
    /\ ratings = << [project_id |-> IdA, rating |-> 4],
                    [project_id |-> IdA, rating |-> 2] >>
    /\ req.op = "stats"
    /\ res.body.ratings[IdA] = [average |-> [num |-> 3, den |-> 1], count |-> 2]

\* C5: the online value of GET /api/stats is non-negative and is the number
\* of Session rows whose disconnected_at is null at the time of the read.
C5_OnlineIsOpenRows ==
    (req.op = "stats" /\ res.status = 200) =>
        /\ res.body.online >= 0
        /\ res.body.online = Cardinality(OpenSessions)

C5_Witness ==
    /\ req.op = "stats"
    /\ res.body.online = 1
    /\ \E x \in DOMAIN sessions : sessions[x].disconnected_at # NULL

\* C6: every online value pushed to a connected client (session:update,
\* stats:update, session:joined) is the number of Session rows with
\* disconnected_at null at the moment it is sent.
C6_PushedOnlineIsOpenRows ==
    \A i \in DOMAIN emitted :
        emitted[i].to # {} => emitted[i].payload.online = Cardinality(OpenSessions)

\* C7: after a process start and before any client connects, no Session row
\* has disconnected_at null, so the online count of a snapshot is 0.
C7_StartupSweep ==
    req.op = "start" =>
        /\ OpenSessions = {}
        /\ StatsObject(kv, launches, ratings, CountOnlineSessions(sessions)).online = 0

C9_MalformedIdRejected ==
    (req.op = "build" /\ HasPathToken(req.id)) =>
        /\ res.status = 400
        /\ \A p \in procs : p.id # req.id

SnapshotFields == {"version", "online", "launches", "ratings"}

Emitted(event) ==
    {emitted[i] : i \in {j \in DOMAIN emitted : emitted[j].event = event}}

\* C13: the snapshot pushed for a mutation is computed after the mutation's
\* write.  The stats:update of recordLaunch(X) has launches[X] >= the returned
\* count, that of recordRating(X) has ratings[X].count >= the returned
\* ratingCount, and the session:update of a connect (disconnect) counts
\* (no longer counts) the row of that session.
C13_PushAfterWrite ==
    /\ (req.op = "launch" /\ res.status = 200) =>
          \A m \in Emitted("stats:update") :
              /\ req.id \in DOMAIN m.payload.launches
              /\ m.payload.launches[req.id] >= res.launches
    /\ (req.op = "rate" /\ res.status = 200) =>
          \A m \in Emitted("stats:update") :
              /\ req.id \in DOMAIN m.payload.ratings
              /\ m.payload.ratings[req.id].count >= res.ratingCount
    /\ req.op = "connection" =>
          \A m \in Emitted("session:update") :
              /\ req.id \in OpenSessions
              /\ m.payload.online = Cardinality(OpenSessions)
    /\ req.op = "disconnect" =>
          \A m \in Emitted("session:update") :
              /\ req.id \notin OpenSessions
              /\ m.payload.online = Cardinality(OpenSessions)

\* the second launch of a project is pushed to a connected client
C13_Witness ==
    /\ req.op = "launch" /\ res.status = 200 /\ res.launches = 2
    /\ sockets # {}
    /\ \E m \in Emitted("stats:update") :
           m.to = sockets /\ m.payload.launches[req.id] = 2

C19_LaunchesMonotonic ==
    [][req'.op # "start" =>
         \A x \in DOMAIN launches :
             /\ x \in DOMAIN launches'
             /\ launches'[x] >= launches[x]
      ]_vars

\* a counter migrated from state.json has been raised and a second project
\* has a row of its own
C19_Witness ==
    /\ req.op = "launch" /\ req.id = IdA /\ res.status = 200 /\ res.launches = 2
    /\ IdB \in DOMAIN launches
    /\ sessions # EmptyFn

\* C17: a state.json present at the first start is imported by that start
\* only: the file is gone once the importing start has completed, so no later
\* start of the process imports the same contents again.
C17_ImportedOnce == [][req'.op = "start" => ~req'.migrated]_vars

\* C18: in every reachable state, those reached through the state.json
\* migration included, every stored Rating sample is a number in [0,5].
C18_StoredRatingsInRange ==
    \A i \in 1..Len(ratings) : ratings[i].rating \in 0..5

\* C15: when the build process exits non-zero or passes the output bound, the
\* response is 500 with a non-empty details text, the project that had no
\* build output still has none (hasDist false in the next scan), and a later
\* build of an existing well-formed id is accepted and starts a new process.
C15_FailedBuild ==
    [][/\ (req'.op = "build:exit" /\ req'.error) =>
            /\ res'.status = 500
            /\ res'.details # ""
            /\ DistPath(PathJoin(req'.id)) \notin fs
                  => DistPath(PathJoin(req'.id)) \notin fs'
       /\ (req'.op = "build" /\ ~HasPathToken(req'.id) /\ PathJoin(req'.id) \in fs) =>
            \E q \in procs' \ procs : q.id = req'.id
      ]_vars

C16_StoreFaultContained ==
    /\ alive
    /\ ("fault" \in DOMAIN req /\ req.fault \in RouteSites) =>
          /\ res.status = 500
          /\ "error" \in DOMAIN res
          /\ res.error # ""
    /\ (req.op = "stats" /\ "fault" \notin DOMAIN req) =>
          /\ res.status = 200
          /\ res.body = StatsObject(kv, launches, ratings,
                                    Cardinality(OpenSessions))
    /\ ENABLED GetStats

\* a stats read served after a connection whose createSession failed (the
\* socket has no row)
C16_Witness ==
    /\ req.op = "stats" /\ "fault" \notin DOMAIN req /\ res.status = 200
    /\ \E x \in sockets : x \notin DOMAIN sessions
    /\ IdA \in DOMAIN res.body.launches
    /\ res.body.launches[IdA] = 2

\* the number of rating samples state.json holds for a project
ArtifactSamples(f, id) ==
    LET es == {i \in DOMAIN f.ratings : f.ratings[i][1] = id}
    IN  IF es = {} THEN 0 ELSE Len(f.ratings[CHOOSE i \in es : TRUE][2])

\* C21: a start that imports state.json again right after a start that
\* imported it (nothing recorded in between) leaves the launches map as the
\* single import left it, and appends the file's rating samples once more:
\* the sample count of every project grows by the file's count for it.
C21_ReimportReplacesAppends ==
    [][(req.op = "start" /\ req.migrated /\ req'.op = "start" /\ req'.migrated) =>
         /\ launches' = launches
         /\ \A id \in ProjectIds :
                RatingCount(ratings', id)
                    = RatingCount(ratings, id) + ArtifactSamples(stateJson, id)
      ]_vars

\* the state after a second import: the one sample of the file is stored twice
C21_Witness ==
    /\ req.op = "start" /\ req.migrated
    /\ launches = [p \in {IdA} |-> 1]
    /\ ratings = << [project_id |-> IdA, rating |-> 7],
                    [project_id |-> IdA, rating |-> 7] >>

\* C27: no process start lowers a launch counter or removes a launch row: a
\* start that imports state.json again after launches were recorded leaves
\* every launches[X] at least at the value it had before the restart.
C27_LaunchesSurviveRestart ==
    [][req'.op = "start" =>
         \A x \in DOMAIN launches :
             /\ x \in DOMAIN launches'
             /\ launches'[x] >= launches[x]
      ]_vars

\* C22: an accepted build request is not answered while its process runs and
\* is answered, once, by the step in which the process exits (200 or 500); a
\* request answered 400 or 404 starts no process.
C22_AnsweredAtExit ==
    [][/\ \A p \in procs' \ procs :
              /\ req'.op = "build" /\ req'.id = p.id
              /\ res' = NoRes
       /\ \A p \in procs \ procs' :
              /\ req'.op = "build:exit" /\ req'.pid = p.pid /\ req'.id = p.id
              /\ res'.status \in {200, 500}
       /\ req'.op = "build:exit" =>
              /\ \E p \in procs : p.pid = req'.pid /\ p \notin procs'
              /\ Cardinality(procs \ procs') = 1
       /\ req'.op = "build" =>
              \/ res' = NoRes /\ Cardinality(procs' \ procs) = 1
              \/ res'.status \in {400, 404} /\ procs' = procs
      ]_vars

\* one build has been answered at its exit while a second, accepted later,
\* is still running and unanswered
C22_Witness ==
    /\ req.op = "build:exit" /\ res.status = 200 /\ req.pid = 1
    /\ procs = {[pid |-> 2, id |-> req.id]}

\* C24: a build request for an existing, well-formed id Y that arrives while
\* a build of another id X is running is accepted in the same step: it starts
\* a process for Y and the process of X keeps running beside it.
C24_DistinctIdsConcurrent ==
    [][(/\ req'.op = "build"
        /\ ~HasPathToken(req'.id)
        /\ PathJoin(req'.id) \in fs
        /\ \E p \in procs : p.id # req'.id) =>
         /\ res' = NoRes
         /\ procs \subseteq procs'
         /\ \E q \in procs' \ procs : q.id = req'.id
      ]_vars

\* builds of two projects are running at the same time
C24_Witness ==
    /\ req.op = "build" /\ req.id = IdB /\ res = NoRes
    /\ {p.id : p \in procs} = {IdA, IdB}

\* the file list() takes a project's metadata from: metadata.json when it
\* exists, else package.json when it exists
MetaSource(id) ==
    IF <<id, MetadataJson>> \in DOMAIN files THEN {<<id, MetadataJson>>}
    ELSE IF <<id, PackageJson>> \in DOMAIN files THEN {<<id, PackageJson>>}
    ELSE {}

\* C25: list() answers 200 with one descriptor per directory of DATA_DIR even
\* when a project's metadata.json or package.json cannot be read or parsed:
\* that project is listed with its directory name as name and the fallback
\* description, and every other project has the name and description its own
\* files give it.
C25_ScanSurvivesBadMetadata ==
    req.op = "projects" =>
        /\ res.status = 200
        /\ {d.id : d \in res.body} = {q[1] : q \in {r \in fs : Len(r) = 1 /\ r # ParentDir}}
        /\ \A d \in res.body :
               IF \E f \in MetaSource(d.id) : ~files[f].valid
               THEN d.name = d.id /\ d.description = NoDescription
               ELSE \A f \in MetaSource(d.id) :
                        /\ d.name = IF f[2] = MetadataJson /\ files[f].name # <<>>
                                    THEN files[f].name ELSE d.id
                        /\ d.description = IF files[f].description # <<>>
                                           THEN files[f].description
                                           ELSE NoDescription

\* a scan of two projects: a has a metadata.json that does not parse, b has a
\* metadata.json with a name
C25_Witness ==
    /\ req.op = "projects" /\ res.status = 200
    /\ <<IdA, MetadataJson>> \in DOMAIN files /\ ~files[<<IdA, MetadataJson>>].valid
    /\ \E d \in res.body : d.id = IdA /\ d.name = IdA /\ d.description = NoDescription
    /\ \E d \in res.body : d.id = IdB /\ d.name = <<"A", "p", "p">>

\* C26: no step removes a Session row; a disconnect changes nothing in the
\* table but the disconnected_at of the row of its own connection; and a row
\* that is closed stays closed through every event of another connection, every
\* request and every process start.
C26_SessionsSoftClosed ==
    [][/\ \A x \in DOMAIN sessions :
              /\ x \in DOMAIN sessions'
              /\ (/\ sessions[x].disconnected_at # NULL
                  /\ ~(/\ req'.op \in {"connection", "session:join", "disconnect"}
                       /\ req'.id = x))
                    => sessions'[x].disconnected_at # NULL
       /\ req'.op = "disconnect" =>
              /\ DOMAIN sessions' = DOMAIN sessions
              /\ \A x \in DOMAIN sessions :
                     IF x = req'.id
                     THEN /\ sessions'[x].disconnected_at # NULL
                          /\ sessions'[x].meta = sessions[x].meta
                          /\ sessions'[x].connected_at = sessions[x].connected_at
                     ELSE sessions'[x] = sessions[x]
      ]_vars

\* the second connection has joined and left while the closed row of the
\* first is still there
C26_Witness ==
    /\ req.op = "disconnect" /\ req.id = 2
    /\ DOMAIN sessions = {1, 2}
    /\ sessions[1].disconnected_at # NULL
    /\ sessions[2].disconnected_at # NULL
    /\ sessions[2].meta = "{}"

C29_OperationFrames ==
    [][/\ req'.op = "launch" =>
            /\ DOMAIN launches' = DOMAIN launches \cup {req'.id}
            /\ \A x \in DOMAIN launches : x # req'.id => launches'[x] = launches[x]
            /\ UNCHANGED <<kv, ratings, sessions, stateJson, buildVars>>
       /\ (req'.op = "rate" /\ res'.status = 200) =>
            /\ Len(ratings') = Len(ratings) + 1
            /\ SubSeq(ratings', 1, Len(ratings)) = ratings
            /\ ratings'[Len(ratings')].project_id = req'.id
            /\ UNCHANGED <<kv, launches, sessions, stateJson, buildVars>>
       /\ (req'.op = "rate" /\ res'.status = 400) =>
            /\ emitted' = <<>>
            /\ UNCHANGED <<dbVars, stateJson, rtVars, buildVars>>
       /\ (req'.op = "build" /\ res'.status \in {400, 404}) =>
            /\ emitted' = <<>>
            /\ UNCHANGED <<dbVars, stateJson, rtVars, buildVars>>
       /\ req'.op = "disconnect" =>
            /\ DOMAIN sessions' = DOMAIN sessions
            /\ \A x \in DOMAIN sessions : x # req'.id => sessions'[x] = sessions[x]
            /\ UNCHANGED <<kv, launches, ratings, stateJson, buildVars>>
      ]_vars

\* a build is rejected after launches of both projects, a rating and a
\* disconnect, with a build still running
C29_Witness ==
    /\ req.op = "build" /\ res.status = 400
    /\ DOMAIN launches = {IdA, IdB}
    /\ ratings # <<>>
    /\ \E x \in DOMAIN sessions : sessions[x].disconnected_at # NULL
    /\ procs # {}

\* the launch and rate requests that succeeded: answered 200
Recorded == req.op \in {"launch", "rate"} /\ res.status = 200

\* the value a successful launch or rate request returns
ReturnedCount ==
    IF req.op = "launch" THEN res.launches ELSE res.ratingCount
StoredCount ==
    IF req.op = "launch" THEN GetLaunch(launches, req.id)
    ELSE RatingCount(ratings, req.id)

\* C23 (as stated): the response to a successful recordLaunch or recordRating
\* is issued before the broadcast has run (no frame has been sent when the
\* response is written), and a failure of the broadcast leaves the response
\* as it is.
C23_ResponseBeforeBroadcast ==
    /\ Recorded => res.framesSent = 0 /\ ReturnedCount = StoredCount
    /\ (req.op \in {"launch", "rate"} /\ "fault" \in DOMAIN req
        /\ req.fault = "changed.read") => res.status = 200

\* C23 (amended): the response to a successful recordLaunch or recordRating
\* is written after the broadcast listener has run: when the broadcast worked
\* its one stats:update has been sent by then, when it failed none has; in
\* both cases the response is 200 with the count read back after the write,
\* so a failure of the broadcast never changes the response.
C23_ResponseAfterListener ==
    /\ Recorded =>
          /\ res.framesSent = Len(emitted)
          /\ Len(emitted) = IF "fault" \in DOMAIN req THEN 0 ELSE 1
          /\ ReturnedCount = StoredCount
    /\ (req.op \in {"launch", "rate"} /\ "fault" \in DOMAIN req
        /\ req.fault = "changed.read") => res.status = 200

\* a launch whose broadcast failed while a client was connected: the request
\* is answered 200 with the new count and no frame is sent
C23_Witness ==
    /\ req.op = "launch" /\ "fault" \in DOMAIN req /\ req.fault = "changed.read"
    /\ res.status = 200 /\ res.launches = 2
    /\ sockets # {}
    /\ emitted = <<>>

\* C30: one handleBuild, handleLaunch or handleRating call has at most one
\* of its POSTs processed by the server: whenever the server has handled a
\* build, launch or rate request of the page's pending apiFetch call, that
\* request is the call's first fetch, whatever status was answered before.
C30_OnePostPerAction ==
    (client.phase = "fetch" /\ req.op \in {"launch", "rate", "build"})
        => client.k = 1

====
